---- MODULE Spec2Model ----
(***************************************************************************)
(* Exam application: question store (seeded), exam attempts, submission    *)
(* validation and scoring, result view.                                    *)
(*                                                                         *)
(* Tables are sequences in primary-key order.  SQLite assigns an INTEGER   *)
(* PRIMARY KEY as max(id)+1; questions and attempts are never deleted, so  *)
(* the id of a question or an attempt is its position in its table.        *)
(* Floats that the program compares are kept exact: scores are whole       *)
(* numbers, thresholds are counted in tenths.                              *)
(***************************************************************************)
EXTENDS Integers, Sequences, FiniteSets, TLC

\* ------------------------------------------------------------------ bounds
MaxQuestions == 2
MaxOptTexts == 1
MaxAttempts == 1
MaxSel == 2
MaxAnswers == 2
NumWorkers == 2

OptTexts == 1..MaxOptTexts
OptionIds == 1..(MaxQuestions * MaxOptTexts)
QuestionIdInputs == 1..MaxQuestions
AttemptIdInts == 1..(MaxAttempts + 1)

Workers == 1..NumWorkers
Idle == [pc |-> "idle"]

Types == {"single", "multi"}
NULL == <<>>

VARIABLES
    questions,   \* the questions table, each row with its options
    attempts,    \* the exam_sessions table
    responses,   \* the user_responses table
    resp,        \* the last operation and the status it answered with
    workers,     \* submissions in flight, one per server process
    write_lock   \* the process holding SQLite's write lock, 0 when free

vars == <<questions, attempts, responses, resp, workers, write_lock>>

\* ------------------------------------------------------------------ helpers
Range(s) == {s[i] : i \in 1..Len(s)}

SeqsUpTo(S, n) == UNION {[1..k -> S] : k \in 0..n}

SetMax(S) == IF S = {} THEN 0 ELSE CHOOSE m \in S : \A x \in S : x <= m

RECURSIVE SumSeq(_)
SumSeq(s) == IF s = <<>> THEN 0 ELSE Head(s) + SumSeq(Tail(s))

\* ------------------------------------------------------------------ questions
\* A Question row: id is the position in `questions`; options is the set of
\* Option rows [id, text, is_correct] owned by the question.
AllOptionIds == UNION {{o.id : o \in questions[i].options} : i \in 1..Len(questions)}

\* The seed file's entries: a question text, a type and a non-empty list of
\* options, each a text and a correctness flag (one option per text).
OptionSpecs == UNION {[T -> BOOLEAN] : T \in (SUBSET OptTexts) \ {{}}}

\* Question texts are named by the order in which the store first saw them:
\* an entry either carries the text of a stored question or the next new text.
SeedSpecs == [text : 1..(Len(questions) + 1), type : Types, options : OptionSpecs]

\* ids handed to the options a seed inserts: max(id)+1, +2, ... in text order
RECURSIVE FreshOptions(_, _, _)
FreshOptions(texts, spec, base) ==
    IF texts = {} THEN {}
    ELSE LET t == CHOOSE x \in texts : \A y \in texts : x <= y
         IN  {[id |-> base + 1, text |-> t, is_correct |-> spec[t]]}
               \cup FreshOptions(texts \ {t}, spec, base + 1)

sync_options(question, option_specs, base) ==
    LET existing == {o.text : o \in question.options}
        kept == {[id |-> o.id, text |-> o.text, is_correct |-> option_specs[o.text]] :
                    o \in {x \in question.options : x.text \in DOMAIN option_specs}}
    IN  kept \cup FreshOptions((DOMAIN option_specs) \ existing, option_specs, base)

QuestionIndex(text) ==
    IF \E i \in 1..Len(questions) : questions[i].text = text
    THEN CHOOSE i \in 1..Len(questions) : questions[i].text = text
    ELSE 0

upsert_question(spec) ==
    LET i == QuestionIndex(spec.text)
        base == SetMax(AllOptionIds)
    IN  IF i = 0
        THEN Append(questions,
                    [text |-> spec.text, type |-> spec.type,
                     options |-> FreshOptions(DOMAIN spec.options, spec.options, base)])
        ELSE [questions EXCEPT ![i] =
                    [text |-> spec.text, type |-> spec.type,
                     options |-> sync_options(questions[i], spec.options, base)]]

StoreWithinBounds(qs) ==
    /\ Len(qs) <= MaxQuestions
    /\ \A i \in 1..Len(qs) : \A o \in qs[i].options : o.id \in OptionIds

run_seed ==
    \E spec \in SeedSpecs :
        /\ StoreWithinBounds(upsert_question(spec))
        /\ questions' = upsert_question(spec)
        /\ resp' = [op |-> "seed", status |-> 200]
        /\ UNCHANGED <<attempts, responses, workers, write_lock>>

\* ------------------------------------------------------------------ start
\* OptionOut.model_validate(option): id, text and is_correct are its fields
OptionOut(option) ==
    [id |-> option.id, text |-> option.text, is_correct |-> option.is_correct]

\* QuestionOut.model_validate(question)
QuestionOut(qid, question) ==
    [id |-> qid, text |-> question.text, type |-> question.type,
     options |-> {OptionOut(o) : o \in question.options}]

\* serialized = [QuestionOut.model_validate(question) for question in questions]
\* for the questions at positions first..last in id order
Serialized(qs, first, last) ==
    [i \in 1..(IF last >= first THEN last - first + 1 ELSE 0) |->
        QuestionOut(first + i - 1, qs[first + i - 1])]

\* the attempt created without counting the stored questions
create_attempt_NoCount ==
    /\ attempts' = Append(attempts,
                          [completed_at |-> FALSE, total_score |-> NULL,
                           max_score |-> 0, passed |-> FALSE])
    /\ resp' = [op |-> "start", status |-> 201, attempt_id |-> Len(attempts) + 1]
    /\ UNCHANGED <<questions, responses, workers, write_lock>>

\* Lines 61-68 and 77-88: the attempt is added with the current question
\* count as its max_score and its id is handed to the exam form.
create_attempt ==
    /\ attempts' = Append(attempts,
                          [completed_at |-> FALSE, total_score |-> NULL,
                           max_score |-> Len(questions), passed |-> FALSE])
    /\ resp' = [op |-> "start", status |-> 201, attempt_id |-> Len(attempts) + 1,
                questions |-> Serialized(questions, 1, Len(questions)),
                max_score |-> Len(questions)]
    /\ UNCHANGED <<questions, responses, workers, write_lock>>

start_exam ==
    /\ Len(attempts) < MaxAttempts
    /\ create_attempt

\* ------------------------------------------------------------------ floats
\* A float is [nan, v]: v counts tenths.  Every ordering comparison with a
\* NaN operand is false, as in Python.
Float(v) == [nan |-> FALSE, v |-> v]
NaN == [nan |-> TRUE, v |-> 0]

FloatLt(a, b) == ~a.nan /\ ~b.nan /\ a.v < b.v
FloatGe(a, b) == ~a.nan /\ ~b.nan /\ a.v >= b.v

\* Python's max(a, b) and min(a, b): the first argument unless the second
\* compares strictly greater (less).
PyMax(a, b) == IF FloatLt(a, b) THEN b ELSE a
PyMin(a, b) == IF FloatLt(b, a) THEN b ELSE a

\* ------------------------------------------------------------------ threshold
DEFAULT_PASS_THRESHOLD == 6

\* The pass_threshold query parameter: absent, or a string.
ABSENT == "<absent>"
RawThresholds == {ABSENT, "abc", "nan", "-1", "0.5", "1.5"}

\* float(raw) raises ValueError
FloatRaises(raw) == raw = "abc"

\* float(raw) where it does not raise
FloatOf(raw) ==
    CASE raw = "nan" -> NaN
      [] raw = "-1"  -> Float(0 - 10)
      [] raw = "0.5" -> Float(5)
      [] raw = "1.5" -> Float(15)

extract_threshold(raw) ==
    IF raw = ABSENT THEN Float(DEFAULT_PASS_THRESHOLD)
    ELSE IF FloatRaises(raw) THEN Float(DEFAULT_PASS_THRESHOLD)
    ELSE PyMin(PyMax(FloatOf(raw), Float(0)), Float(10))

\* ------------------------------------------------------------------ scoring
CorrectIds(question) == {o.id : o \in {x \in question.options : x.is_correct}}

\* a single-type question scored on any correct option among the selected
score_question_AnyCorrect(question, selected_ids) ==
    LET correct_ids == CorrectIds(question)
        selected_set == Range(selected_ids)
    IN  IF question.type = "single"
        THEN IF selected_set \cap correct_ids # {} THEN 1 ELSE 0
        ELSE IF selected_set = correct_ids THEN 1 ELSE 0

\* a multi-type question scored on a selection of correct options only
score_question_PartialCredit(question, selected_ids) ==
    LET correct_ids == CorrectIds(question)
        selected_set == Range(selected_ids)
    IN  IF question.type = "single"
        THEN IF Cardinality(selected_set) # 1 THEN 0
             ELSE IF (CHOOSE x \in selected_set : TRUE) \in correct_ids THEN 1 ELSE 0
        ELSE IF selected_set # {} /\ selected_set \subseteq correct_ids THEN 1 ELSE 0

score_question(question, selected_ids) ==
    LET correct_ids == CorrectIds(question)
        selected_set == Range(selected_ids)
    IN  IF question.type = "single"
        THEN IF Cardinality(selected_set) # 1 THEN 0
             ELSE IF (CHOOSE x \in selected_set : TRUE) \in correct_ids THEN 1 ELSE 0
        ELSE IF selected_set = correct_ids THEN 1 ELSE 0

\* ------------------------------------------------------------------ payload
\* The parsed request body: attempt_id as sent, the answers value (a list of
\* {question_id, selected_option_ids}, a non-list value, or no answers key)
\* and whether an unrecognised top-level key is present.
\* selected_option_ids as sent: a list of option ids, or the list [null]
JsonNull == 0

Selections == SeqsUpTo(OptionIds, MaxSel) \cup {<<JsonNull>>}

AnswerEntries == [question_id : QuestionIdInputs, selected_option_ids : Selections]

AnswersInputs ==
    {[kind |-> "string", items |-> <<>>], [kind |-> "absent", items |-> <<>>]}
        \cup {[kind |-> "list", items |-> a] : a \in SeqsUpTo(AnswerEntries, MaxAnswers)}

\* An unrecognised key is rejected whatever the answers are: it is sent with
\* an empty answers list or with no answers key.
Bodies ==
    [answers : AnswersInputs, extra : {FALSE}]
        \cup [answers : {[kind |-> "list", items |-> <<>>], [kind |-> "absent", items |-> <<>>]},
              extra : {TRUE}]

AttemptIdInputs ==
    {[kind |-> "missing", v |-> 0], [kind |-> "invalid", v |-> 0]}
        \cup {[kind |-> "int", v |-> i] : i \in AttemptIdInts}

\* A validation error: its type and message.  An error raised by one of the
\* schema's own validators is a value_error and carries the exception raised.
ValueErr(msg) == [type |-> "value_error", msg |-> msg]

\* AnswerSelection.coerce_ids raises TypeError: int(None)
coerce_ids_raises(value) == \E i \in 1..Len(value) : value[i] = JsonNull

\* AnswerSelection.validate_ids
validate_ids(value) ==
    IF value = <<>> THEN {ValueErr("At least one option must be selected.")}
    ELSE IF Cardinality(Range(value)) # Len(value)
         THEN {ValueErr("Duplicate option ids are not allowed.")}
         ELSE {}

\* ExamSubmissionIn.ensure_unique_questions
ensure_unique_questions(answers) ==
    IF \E i, j \in 1..Len(answers) : i < j /\ answers[i].question_id = answers[j].question_id
    THEN {ValueErr("Duplicate answers for the same question are not allowed.")}
    ELSE {}

\* The validator without its arity checks.
enforce_question_types_Off(answers, question_types) == {}

\* ExamSubmissionIn.enforce_question_types
enforce_question_types(answers, question_types) ==
    IF \E i \in 1..Len(answers) :
          /\ answers[i].question_id \in DOMAIN question_types
          /\ \/ /\ question_types[answers[i].question_id] = "single"
                /\ Len(answers[i].selected_option_ids) # 1
             \/ /\ question_types[answers[i].question_id] = "multi"
                /\ Len(answers[i].selected_option_ids) < 1
    THEN {ValueErr("Question accepts a single answer.")}
    ELSE {}

\* raw_payload.setdefault("answers", [])
AnswersOrDefault(answers) ==
    IF answers.kind = "absent" THEN [kind |-> "list", items |-> <<>>] ELSE answers

\* ExamSubmissionIn.model_validate: the errors it raises (none: the payload is
\* valid).  A field's validator runs once the field's items are valid; the model
\* validator runs once every field is valid.
model_validate(body, question_types) ==
    LET answers == AnswersOrDefault(body.answers)
        items == answers.items
        item_errors == UNION {validate_ids(items[i].selected_option_ids) : i \in 1..Len(items)}
        answers_errors ==
            IF answers.kind # "list"
            THEN {[type |-> "list_type", msg |-> "Input should be a valid list"]}
            ELSE IF item_errors # {} THEN item_errors
            ELSE ensure_unique_questions(items)
        field_errors ==
            answers_errors \cup
                (IF body.extra
                 THEN {[type |-> "extra_forbidden", msg |-> "Extra inputs are not permitted"]}
                 ELSE {})
    IN  IF field_errors # {} THEN field_errors
        ELSE enforce_question_types(items, question_types)

\* model_validate lets the TypeError of a validator through.
ValidationRaises(body) ==
    LET items == AnswersOrDefault(body.answers).items
    IN  \E i \in 1..Len(items) : coerce_ids_raises(items[i].selected_option_ids)

\* JSONResponse({"detail": exc.errors()}) raises TypeError: json.dumps cannot
\* serialise the exception a value_error carries in its context.
RenderRaises(errors) == \E e \in errors : e.type = "value_error"

\* ------------------------------------------------------------------ submit
build_question_map(qs) == [qid \in 1..Len(qs) |-> qs[qid]]

QuestionTypeMap(qs) == [qid \in 1..Len(qs) |-> qs[qid].type]

\* answers_by_question.get(question.id, []): a dict built from the answers in
\* order, validated to hold each question id once
SelectedFor(items, qid) ==
    IF \E i \in 1..Len(items) : items[i].question_id = qid
    THEN items[CHOOSE i \in 1..Len(items) : items[i].question_id = qid].selected_option_ids
    ELSE <<>>

\* a response row for the answered questions only
NewResponses_AnsweredOnly(exam_session_id, qs, items) ==
    SelectSeq([qid \in 1..Len(qs) |->
                  [exam_session_id |-> exam_session_id, question_id |-> qid,
                   selected_option_ids |-> SelectedFor(items, qid)]],
              LAMBDA r : r.selected_option_ids # <<>>)

\* a row for every stored question and one more for every answer to a
\* question id outside the store
NewResponses_PerAnswer(exam_session_id, qs, items) ==
    LET unknown == SelectSeq(items, LAMBDA it : it.question_id \notin 1..Len(qs))
    IN  [qid \in 1..Len(qs) |->
            [exam_session_id |-> exam_session_id, question_id |-> qid,
             selected_option_ids |-> SelectedFor(items, qid)]]
        \o [i \in 1..Len(unknown) |->
               [exam_session_id |-> exam_session_id,
                question_id |-> unknown[i].question_id,
                selected_option_ids |-> unknown[i].selected_option_ids]]

\* the rows the scoring loop adds, one per question in id order
NewResponses(exam_session_id, qs, items) ==
    [qid \in 1..Len(qs) |->
        [exam_session_id |-> exam_session_id, question_id |-> qid,
         selected_option_ids |-> SelectedFor(items, qid)]]

TotalScore(qs, items) ==
    SumSeq([qid \in 1..Len(qs) |-> score_question(qs[qid], SelectedFor(items, qid))])

\* max_score = float(exam_session.max_score or question_count or 0);
\* if max_score == 0: max_score = float(question_count)
SubmitMaxScore(exam_session, question_count) ==
    LET m == IF exam_session.max_score # 0 THEN exam_session.max_score ELSE question_count
    IN  IF m = 0 THEN question_count ELSE m

\* passed = bool(score >= (threshold * max_score if max_score else 0))
SubmitPassed(score, threshold, max_score) ==
    IF max_score # 0
    THEN FloatGe(Float(score * 10),
                 [nan |-> threshold.nan, v |-> threshold.v * max_score])
    ELSE FloatGe(Float(score * 10), Float(0))

\* the prior responses are not deleted
DeleteResponses_None(rows, exam_session_id) == rows

\* db.query(UserResponse).filter(exam_session_id == id).delete()
DeleteResponses(rows, exam_session_id) ==
    SelectSeq(rows, LAMBDA r : r.exam_session_id # exam_session_id)

\* Lines 180-185: the summary of a submission that scored `score`.
Summarise(exam_session, score, question_count, raw_threshold) ==
    LET max_score == SubmitMaxScore(exam_session, question_count)
    IN  [total_score |-> score,
         max_score |-> max_score,
         passed |-> SubmitPassed(score, extract_threshold(raw_threshold), max_score)]

\* Lines 165-185: the score, max score and pass decision of a submission.
Submission(exam_session, qs, items, raw_threshold) ==
    Summarise(exam_session, TotalScore(qs, items), Len(qs), raw_threshold)

\* Lines 161-178: the responses table once the attempt's rows are replaced.
SubmittedResponses(rows, attempt_id, items) ==
    DeleteResponses(rows, attempt_id) \o NewResponses(attempt_id, questions, items)

\* the summary stored without the completion timestamp
SubmittedAttempts_NoStamp(atts, attempt_id, score, raw_threshold) ==
    LET s == Summarise(atts[attempt_id], score, Len(questions), raw_threshold)
    IN  [atts EXCEPT ![attempt_id] =
            [completed_at |-> atts[attempt_id].completed_at,
             total_score |-> <<s.total_score>>,
             max_score |-> s.max_score, passed |-> s.passed]]

\* Lines 187-193: the attempts table once the summary is stored.
SubmittedAttempts(atts, attempt_id, score, raw_threshold) ==
    LET s == Summarise(atts[attempt_id], score, Len(questions), raw_threshold)
    IN  [atts EXCEPT ![attempt_id] =
            [completed_at |-> TRUE, total_score |-> <<s.total_score>>,
             max_score |-> s.max_score, passed |-> s.passed]]

Items(body) == AnswersOrDefault(body.answers).items

\* The answers of the bodies that pass validation against the stored questions.
ValidItems ==
    {Items(body) : body \in {b \in Bodies :
                                /\ ~ValidationRaises(b)
                                /\ model_validate(b, QuestionTypeMap(questions)) = {}}}

\* The status submit_exam answers with.
SubmitStatus(aid, body) ==
    IF aid.kind # "int" THEN 400
    ELSE IF aid.v \notin 1..Len(attempts) THEN 404
    ELSE IF ValidationRaises(body) THEN 500
    ELSE LET errors == model_validate(body, QuestionTypeMap(questions))
         IN  IF errors = {} THEN 303
             ELSE IF RenderRaises(errors) THEN 500
             ELSE 422

Respond(status, attempt_id) ==
    resp' = [op |-> "submit", status |-> status, attempt_id |-> attempt_id]

\* Lines 97-121: the body is no JSON object, or attempt_id is missing or no integer.
on_bad_request ==
    /\ Respond(400, 0)
    /\ UNCHANGED <<attempts, responses>>

\* an unknown attempt id creates the attempt
on_attempt_not_found_Create(attempt_id) ==
    /\ Respond(404, attempt_id)
    /\ attempts' = Append(attempts,
                          [completed_at |-> FALSE, total_score |-> NULL,
                           max_score |-> Len(questions), passed |-> FALSE])
    /\ UNCHANGED responses

\* Lines 129-134
on_attempt_not_found(attempt_id) ==
    /\ Respond(404, attempt_id)
    /\ UNCHANGED <<attempts, responses>>

\* Lines 148-154: every error of the payload can be serialised
on_validation_error(attempt_id) ==
    /\ Respond(422, attempt_id)
    /\ UNCHANGED <<attempts, responses>>

\* Lines 148-154: an exception leaves the handler; the session is closed
\* without a commit
on_server_error(attempt_id) ==
    /\ Respond(500, attempt_id)
    /\ UNCHANGED <<attempts, responses>>

\* Lines 180-196: the summary stored with the rows and score of the scoring loop
on_valid_submission(attempt_id, rows, score, raw_threshold) ==
    /\ responses' = rows
    /\ attempts' = SubmittedAttempts(attempts, attempt_id, score, raw_threshold)
    /\ Respond(303, attempt_id)

submit_exam ==
    /\ \/ on_bad_request
       \/ \E aid \in AttemptIdInputs :
             IF aid.kind # "int" THEN on_bad_request
             ELSE IF aid.v \notin 1..Len(attempts) THEN on_attempt_not_found(aid.v)
             ELSE \/ /\ ~(\A body \in Bodies : SubmitStatus(aid, body) # 422)
                     /\ on_validation_error(aid.v)
                  \/ /\ ~(\A body \in Bodies : SubmitStatus(aid, body) # 500)
                     /\ on_server_error(aid.v)
                  \/ \E items \in ValidItems :
                        LET rows == SubmittedResponses(responses, aid.v, items)
                            score == TotalScore(questions, items)
                        IN  \E raw \in RawThresholds :
                               on_valid_submission(aid.v, rows, score, raw)
    /\ UNCHANGED <<questions, workers, write_lock>>

\* ------------------------------------------------------------------ result view
AttemptResponses(exam_session_id) ==
    SelectSeq(responses, LAMBDA r : r.exam_session_id = exam_session_id)

VIEW_PASS_THRESHOLD == 7

\* a multi-type response marked correct on a selection of correct options only
ResponseCorrect_Subset(response) ==
    LET question == questions[response.question_id]
        correct_options == CorrectIds(question)
        selected_options == Range(response.selected_option_ids)
    IN  IF question.type = "single"
        THEN Cardinality(selected_options) = 1 /\ selected_options \subseteq correct_options
        ELSE selected_options # {} /\ selected_options \subseteq correct_options

\* the per-response correctness of build_result
ResponseCorrect(response) ==
    LET question == questions[response.question_id]
        correct_options == CorrectIds(question)
        selected_options == Range(response.selected_option_ids)
    IN  IF question.type = "single"
        THEN Cardinality(selected_options) = 1 /\ selected_options \subseteq correct_options
        ELSE selected_options = correct_options

build_result(exam_session_id) ==
    LET exam_session == attempts[exam_session_id]
        rows == AttemptResponses(exam_session_id)
        breakdown == [i \in 1..Len(rows) |->
                        [question_id |-> rows[i].question_id,
                         selected_option_ids |-> rows[i].selected_option_ids,
                         correct |-> ResponseCorrect(rows[i]),
                         score |-> IF ResponseCorrect(rows[i]) THEN 1 ELSE 0]]
        score == SumSeq([i \in 1..Len(rows) |-> breakdown[i].score])
        max_score == IF exam_session.max_score # 0 THEN exam_session.max_score
                     ELSE Len(breakdown)
        passed == exam_session.passed \/ score * 10 >= VIEW_PASS_THRESHOLD * max_score
    IN  [score |-> score, max_score |-> max_score, passed |-> passed,
         breakdown |-> breakdown]

view_result ==
    \E attempt_id \in AttemptIdInts :
        /\ IF attempt_id \notin 1..Len(attempts)
           THEN resp' = [op |-> "view", status |-> 404, attempt_id |-> attempt_id]
           ELSE resp' = [op |-> "view", status |-> 200, attempt_id |-> attempt_id,
                         result |-> build_result(attempt_id)]
        /\ UNCHANGED <<questions, attempts, responses, workers, write_lock>>

\* ------------------------------------------------------------------ system
Init ==
    /\ questions = <<>>
    /\ attempts = <<>>
    /\ responses = <<>>
    /\ resp = [op |-> "none", status |-> 0]
    /\ workers = [w \in Workers |-> Idle]
    /\ write_lock = 0

Next == run_seed \/ start_exam \/ submit_exam \/ view_result

Spec == Init /\ [][Next]_vars

\* ------------------------------------------------------------------ scoring alone
\* score_question applied to one stored question and every selection.
MaxScoreOptions == 3
MaxScoreSel == 3

ScoreOptionIds == 1..MaxScoreOptions

ScoreQuestions ==
    {[text |-> 1, type |-> t,
      options |-> {[id |-> i, text |-> i, is_correct |-> f[i]] : i \in ScoreOptionIds}] :
        t \in Types, f \in [ScoreOptionIds -> BOOLEAN]}

InitScore ==
    /\ questions \in {<<q>> : q \in ScoreQuestions}
    /\ attempts = <<>>
    /\ responses = <<>>
    /\ resp = [op |-> "none", status |-> 0]
    /\ workers = [w \in Workers |-> Idle]
    /\ write_lock = 0

ScoreStep ==
    /\ \E selected_ids \in SeqsUpTo(ScoreOptionIds, MaxScoreSel) :
          resp' = [op |-> "score", status |-> 0, selected_ids |-> selected_ids,
                   score |-> score_question(questions[1], selected_ids)]
    /\ UNCHANGED <<questions, attempts, responses, workers, write_lock>>

NextScore == ScoreStep

SpecScore == InitScore /\ [][NextScore]_vars

\* ------------------------------------------------------------------ concurrent submissions
\* Server processes sharing the SQLite file, each running submit_exam for a
\* valid payload.  The handler awaits nothing once the payload is parsed, so
\* submissions interleave between processes only.  The driver opens a
\* transaction at the first DML statement: the queries of lines 123-141 read
\* committed rows and hold no lock, the DELETE of line 161 takes the write
\* lock (or fails when another process holds it past the busy timeout) and
\* the commit of line 193 publishes the transaction and releases the lock.
MaxConcAnswers == 1

ConcItems == {items \in ValidItems : Len(items) <= MaxConcAnswers}

\* The UPDATE a flush emits sets the columns whose value differs from the
\* value the session loaded; completed_at is a new timestamp every time.
FlushedRow(stored, loaded, new) ==
    [c \in DOMAIN new |->
        IF c = "completed_at" \/ new[c] # loaded[c] THEN new[c] ELSE stored[c]]

\* Lines 123-159: the attempt and the questions are loaded, the payload passes.
submit_exam_load(w) ==
    /\ workers[w].pc = "idle"
    /\ \E attempt_id \in 1..Len(attempts) : \E items \in ConcItems :
       \E raw \in RawThresholds :
          workers' = [workers EXCEPT ![w] =
                         [pc |-> "loaded", attempt_id |-> attempt_id,
                          exam_session |-> attempts[attempt_id],
                          items |-> items, raw |-> raw]]
    /\ UNCHANGED <<questions, attempts, responses, resp, write_lock>>

\* Lines 161-163: the DELETE opens the transaction and takes the write lock.
submit_exam_delete(w) ==
    /\ workers[w].pc = "loaded"
    /\ write_lock = 0
    /\ write_lock' = w
    /\ workers' = [workers EXCEPT ![w].pc = "deleted"]
    /\ UNCHANGED <<questions, attempts, responses, resp>>

\* Lines 161-163: the DELETE finds the database locked until the busy timeout.
submit_exam_locked(w) ==
    /\ workers[w].pc = "loaded"
    /\ write_lock \notin {0, w}
    /\ workers' = [workers EXCEPT ![w] = [pc |-> "failed"]]
    /\ resp' = [op |-> "submit", status |-> 500,
                attempt_id |-> workers[w].attempt_id, worker |-> w]
    /\ UNCHANGED <<questions, attempts, responses, write_lock>>

\* Lines 165-196: the rows are inserted and the changed summary columns are
\* updated on top of the rows committed by then.
submit_exam_commit(w) ==
    /\ workers[w].pc = "deleted"
    /\ write_lock = w
    /\ LET me == workers[w]
           a == me.attempt_id
           s == Submission(me.exam_session, questions, me.items, me.raw)
           new == [completed_at |-> TRUE, total_score |-> <<s.total_score>>,
                   max_score |-> s.max_score, passed |-> s.passed]
       IN  /\ responses' = SubmittedResponses(responses, a, me.items)
           /\ attempts' = [attempts EXCEPT ![a] = FlushedRow(@, me.exam_session, new)]
           /\ resp' = [op |-> "submit", status |-> 303, attempt_id |-> a,
                       worker |-> w, items |-> me.items, raw |-> me.raw]
    /\ write_lock' = 0
    /\ workers' = [workers EXCEPT ![w] = [pc |-> "done"]]
    /\ UNCHANGED questions

\* One seeded question and one started attempt.
InitConc ==
    /\ questions \in {<<[text |-> 1, type |-> t,
                         options |-> {[id |-> 1, text |-> 1, is_correct |-> c]}]>> :
                        t \in Types, c \in BOOLEAN}
    /\ attempts = <<[completed_at |-> FALSE, total_score |-> NULL,
                     max_score |-> 1, passed |-> FALSE]>>
    /\ responses = <<>>
    /\ resp = [op |-> "none", status |-> 0]
    /\ workers = [w \in Workers |-> Idle]
    /\ write_lock = 0

NextConc ==
    \E w \in Workers :
        \/ submit_exam_load(w)
        \/ submit_exam_delete(w)
        \/ submit_exam_locked(w)
        \/ submit_exam_commit(w)

SpecConc == InitConc /\ [][NextConc]_vars

\* ------------------------------------------------------------------ form submissions
\* A URL-encoded form: its distinct keys in order of first appearance, each
\* with the values sent under it.  A key is a prefix, the fragment after the
\* prefix and an optional [] suffix; attempt_id is sent in a field of its own.
MaxFields == 2
MaxFormValues == 2

FormPrefixes == {"answer_", "q_", "note_"}
\* fragments: a decimal id, a letter, and "sup2", which stands for the
\* one-character string SUPERSCRIPT TWO (U+00B2)
FormFragments == {"1", "x", "sup2"}
FormValueTokens == {"1", "2"}

\* Keys outside the two answer prefixes are skipped whatever follows the
\* prefix (line 51), so one such key stands for all of them.  The [] suffix
\* is stripped before anything else (lines 45-47); keys with the decimal
\* fragment are sent with and without it.
FormKeys ==
    {key \in [prefix : FormPrefixes, fragment : FormFragments, brackets : BOOLEAN] :
        /\ key.prefix = "note_" => key.fragment = "1"
        /\ key.brackets => (key.prefix # "note_" /\ key.fragment = "1")}

FormFields == [key : FormKeys, values : SeqsUpTo(FormValueTokens, MaxFormValues) \ {<<>>}]

Forms ==
    {form \in SeqsUpTo(FormFields, MaxFields) :
        \A i, j \in 1..Len(form) : i < j => form[i].key # form[j].key}

\* str.isdigit() and int() on the strings used as fragments and values:
\* isdigit() holds for every character with the Unicode property Digit,
\* the superscripts among them; int() accepts decimal digits only and raises
\* ValueError on a superscript
IsDigit(str) == str \in {"1", "2", "sup2"}

IntRaises(str) == str \notin {"1", "2"}

IntOf(str) ==
    CASE str = "1" -> 1
      [] str = "2" -> 2

\* key_base of lines 45-47 is the key without its [] suffix: the prefix and
\* the fragment.  Lines 49-57: the fields that carry an answer.
IsAnswerField(field) ==
    /\ field.key.prefix \in {"answer_", "q_"}
    /\ IsDigit(field.key.fragment)

\* Lines 42-72: one answer per answer field, in the order of the keys.
parse_submission_payload(form) ==
    LET fields == SelectSeq(form, IsAnswerField)
    IN  [i \in 1..Len(fields) |->
            [question_id |-> IntOf(fields[i].key.fragment),
             selected_option_ids |-> fields[i].values]]

\* Line 59: int(raw_id) raises ValueError for a fragment that passed isdigit().
parse_raises(form) ==
    \E i \in 1..Len(form) : IsAnswerField(form[i]) /\ IntRaises(form[i].key.fragment)

\* AnswerSelection.coerce_ids on the list of strings of a form field
coerce_ids(value) == [i \in 1..Len(value) |-> IntOf(value[i])]

\* The payload model_validate receives for a form.
FormBody(form) ==
    LET answers == parse_submission_payload(form)
    IN  [answers |-> [kind |-> "list",
                      items |-> [i \in 1..Len(answers) |->
                                    [question_id |-> answers[i].question_id,
                                     selected_option_ids |->
                                         coerce_ids(answers[i].selected_option_ids)]]],
         extra |-> FALSE]

\* The status submit_exam answers a form with: the ValueError of the parser
\* is answered 400 before attempt_id is looked at (lines 97-104).
FormStatus(aid, form) ==
    IF parse_raises(form) THEN 400 ELSE SubmitStatus(aid, FormBody(form))

\* submit_exam for a form-encoded request
submit_exam_form ==
    /\ \E aid \in AttemptIdInputs : \E form \in Forms :
          LET status == FormStatus(aid, form)
              items == Items(FormBody(form))
          IN  CASE status = 400 -> on_bad_request
                [] status = 404 -> on_attempt_not_found(aid.v)
                [] status = 422 -> on_validation_error(aid.v)
                [] status = 500 -> on_server_error(aid.v)
                [] status = 303 ->
                      \E raw \in RawThresholds :
                          on_valid_submission(aid.v,
                                              SubmittedResponses(responses, aid.v, items),
                                              TotalScore(questions, items), raw)
    /\ UNCHANGED <<questions, workers, write_lock>>

\* One seeded question with two options, and one started attempt.
InitForm ==
    /\ questions \in {<<[text |-> 1, type |-> t,
                         options |-> {[id |-> 1, text |-> 1, is_correct |-> c1],
                                      [id |-> 2, text |-> 2, is_correct |-> c2]}]>> :
                        t \in Types, c1 \in BOOLEAN, c2 \in BOOLEAN}
    /\ attempts = <<[completed_at |-> FALSE, total_score |-> NULL,
                     max_score |-> 1, passed |-> FALSE]>>
    /\ responses = <<>>
    /\ resp = [op |-> "none", status |-> 0]
    /\ workers = [w \in Workers |-> Idle]
    /\ write_lock = 0

NextForm == submit_exam_form

SpecForm == InitForm /\ [][NextForm]_vars

\* ------------------------------------------------------------------ repeated starts
\* Attempts started one after another, each submitted without answers or not
\* at all, while the store is seeded in between.
MaxStartAttempts == 3

start_exam_again ==
    /\ Len(attempts) < MaxStartAttempts
    /\ create_attempt

\* submit_exam for an existing attempt with an empty answers list and no
\* pass_threshold
submit_exam_unanswered ==
    /\ \E attempt_id \in 1..Len(attempts) :
          /\ SubmitStatus([kind |-> "int", v |-> attempt_id],
                          [answers |-> [kind |-> "list", items |-> <<>>], extra |-> FALSE]) = 303
          /\ on_valid_submission(attempt_id,
                                 SubmittedResponses(responses, attempt_id, <<>>),
                                 TotalScore(questions, <<>>), ABSENT)
    /\ UNCHANGED <<questions, workers, write_lock>>

\* GET /exam: one page of the questions in id order
MaxPage == 2
MaxPerPage == 2

list_exam_questions ==
    /\ \E page \in 1..MaxPage : \E per_page \in 1..MaxPerPage :
          LET total_questions == Len(questions)
              first == (page - 1) * per_page + 1
              last == IF page * per_page < total_questions
                      THEN page * per_page ELSE total_questions
              pages == (total_questions + per_page - 1) \div per_page
          IN  resp' = [op |-> "list", status |-> 200,
                       questions |-> Serialized(questions, first, last),
                       page |-> page, per_page |-> per_page,
                       total |-> total_questions,
                       total_pages |-> IF pages > 1 THEN pages ELSE 1]
    /\ UNCHANGED <<questions, attempts, responses, workers, write_lock>>

NextStart == run_seed \/ start_exam_again \/ submit_exam_unanswered \/ list_exam_questions

SpecStart == Init /\ [][NextStart]_vars

\* ------------------------------------------------------------------ submit, then view
\* One attempt over a store that stays as it is: a question with
\* MaxScoreOptions options of any type and correct set, and a second question
\* with one option.  The attempt is submitted and its result viewed.
ViewQuestions ==
    {<<q, [text |-> 2, type |-> t,
           options |-> {[id |-> MaxScoreOptions + 1, text |-> 1, is_correct |-> c]}]>> :
        q \in ScoreQuestions, t \in Types, c \in BOOLEAN}

\* answers: none, one for question 1, or one for each question
ViewItems ==
    {<<>>}
        \cup {<<[question_id |-> 1, selected_option_ids |-> sel]>> :
                 sel \in SeqsUpTo(ScoreOptionIds, MaxScoreSel)}
        \cup {<<[question_id |-> 1, selected_option_ids |-> sel],
                [question_id |-> 2, selected_option_ids |-> <<MaxScoreOptions + 1>>]>> :
                 sel \in SeqsUpTo(ScoreOptionIds, MaxScoreSel)}

InitView ==
    /\ questions \in ViewQuestions
    /\ attempts = <<[completed_at |-> FALSE, total_score |-> NULL,
                     max_score |-> 2, passed |-> FALSE]>>
    /\ responses = <<>>
    /\ resp = [op |-> "none", status |-> 0]
    /\ workers = [w \in Workers |-> Idle]
    /\ write_lock = 0

\* submit_exam for a JSON body with one of the answers lists above
submit_exam_answers ==
    /\ \E aid \in AttemptIdInputs : \E items \in ViewItems :
          LET body == [answers |-> [kind |-> "list", items |-> items], extra |-> FALSE]
              status == SubmitStatus(aid, body)
          IN  CASE status = 400 -> on_bad_request
                [] status = 404 -> on_attempt_not_found(aid.v)
                [] status = 422 -> on_validation_error(aid.v)
                [] status = 500 -> on_server_error(aid.v)
                [] status = 303 ->
                      \E raw \in RawThresholds :
                          on_valid_submission(aid.v,
                                              SubmittedResponses(responses, aid.v, items),
                                              TotalScore(questions, items), raw)
    /\ UNCHANGED <<questions, workers, write_lock>>

NextView == submit_exam_answers \/ view_result

SpecView == InitView /\ [][NextView]_vars

\* ------------------------------------------------------------------ claims
Submitted == resp.op = "submit" /\ resp.status = 303

IntId(a) == [kind |-> "int", v |-> a]

\* C1: whenever a submission succeeds, the attempt's stored max_score equals
\* the number of questions that exist at the moment of that submission.
C1_MaxScoreIsQuestionCount ==
    Submitted => attempts[resp.attempt_id].max_score = Len(questions)

\* C2: for a single-type question score_question returns 1.0 if exactly one
\* option is selected and it is in the correct set, and 0.0 for zero
\* selections, more than one selection, or one incorrect option.
C2_SingleScoring ==
    (resp.op = "score" /\ questions[1].type = "single") =>
        LET selected == Range(resp.selected_ids)
            correct == CorrectIds(questions[1])
        IN  /\ resp.score \in {0, 1}
            /\ resp.score = 1 <=> (Cardinality(selected) = 1 /\ selected \subseteq correct)
            /\ selected = {} => resp.score = 0
            /\ Cardinality(selected) > 1 => resp.score = 0
            /\ (Cardinality(selected) = 1 /\ selected \cap correct = {}) => resp.score = 0

C2_Witness ==
    /\ resp.op = "score"
    /\ questions[1].type = "single"
    /\ Len(resp.selected_ids) = 1
    /\ resp.score = 1

\* C3: for a multi-type question score_question returns 1.0 if and only if the
\* selected set equals the correct set; a strict subset, a strict superset or
\* a disjoint (different) selection scores 0.0.
C3_MultiScoring ==
    (resp.op = "score" /\ questions[1].type = "multi") =>
        LET selected == Range(resp.selected_ids)
            correct == CorrectIds(questions[1])
        IN  /\ resp.score \in {0, 1}
            /\ resp.score = 1 <=> selected = correct
            /\ (selected \subseteq correct /\ selected # correct) => resp.score = 0
            /\ (correct \subseteq selected /\ selected # correct) => resp.score = 0
            /\ (selected \cap correct = {} /\ selected # correct) => resp.score = 0

C3_Witness ==
    /\ resp.op = "score"
    /\ questions[1].type = "multi"
    /\ CorrectIds(questions[1]) # {}
    /\ CorrectIds(questions[1]) \subseteq Range(resp.selected_ids)
    /\ CorrectIds(questions[1]) # Range(resp.selected_ids)
    /\ resp.score = 0

\* The threshold as C4 states it, in tenths: the supplied number clamped into
\* [0,1], or 0.6 when the parameter is absent or not a number.
ClaimedThreshold(raw) ==
    IF raw = ABSENT \/ FloatRaises(raw) THEN DEFAULT_PASS_THRESHOLD
    ELSE IF FloatOf(raw).nan THEN DEFAULT_PASS_THRESHOLD
    ELSE IF FloatOf(raw).v < 0 THEN 0
    ELSE IF FloatOf(raw).v > 10 THEN 10
    ELSE FloatOf(raw).v

\* C4: on every successful submission the stored passed flag equals
\* (total_score >= threshold * max_score), the threshold being pass_threshold
\* clamped into [0,1], or 0.6 when it is absent or not a number.
C4_PassedMatchesThreshold ==
    \A a \in 1..Len(attempts) : \A body \in Bodies : \A raw \in RawThresholds :
        SubmitStatus(IntId(a), body) = 303 =>
            LET s == Submission(attempts[a], questions, Items(body), raw)
            IN  s.passed = (s.total_score * 10 >= ClaimedThreshold(raw) * s.max_score)

Summary(exam_session) ==
    <<exam_session.total_score, exam_session.max_score, exam_session.passed>>

RowsOf(rows, exam_session_id) ==
    SelectSeq(rows, LAMBDA r : r.exam_session_id = exam_session_id)

\* C5: submitting the same answers and threshold twice for an attempt, the
\* questions unchanged, leaves the same stored total_score, max_score, passed
\* and response selections, and the same number of response rows.
C5_ResubmissionIdempotent ==
    \A a \in 1..Len(attempts) : \A items \in ValidItems :
        LET rows1 == SubmittedResponses(responses, a, items)
            rows2 == SubmittedResponses(rows1, a, items)
            score == TotalScore(questions, items)
        IN  /\ RowsOf(rows2, a) = RowsOf(rows1, a)
            /\ Len(rows2) = Len(rows1)
            /\ \A raw \in RawThresholds :
                  LET atts1 == SubmittedAttempts(attempts, a, score, raw)
                      atts2 == SubmittedAttempts(atts1, a, score, raw)
                  IN  Summary(atts2[a]) = Summary(atts1[a])

\* a state a successful submission has just stored, which submitting the
\* same answers again leaves as it is
C5_Witness ==
    /\ Submitted
    /\ Len(RowsOf(responses, resp.attempt_id)) = MaxQuestions
    /\ attempts[resp.attempt_id].total_score # <<0>>
    /\ \E items \in ValidItems : \E raw \in RawThresholds :
          /\ items # <<>>
          /\ SubmittedResponses(responses, resp.attempt_id, items) = responses
          /\ SubmittedAttempts(attempts, resp.attempt_id,
                               TotalScore(questions, items), raw) = attempts

RowCount(rows, qid) == Cardinality({i \in 1..Len(rows) : rows[i].question_id = qid})

\* C6: a submitted attempt holds at most one response per question: exactly
\* one for each question that existed at its latest successful submission,
\* with the submitted selection or the empty list when unanswered, and no
\* response left over from an earlier submission.
C6_OneResponsePerQuestion ==
    /\ \A a \in 1..Len(attempts) :
          LET mine == RowsOf(responses, a)
          IN  /\ Len(mine) <= Len(questions)
              /\ \A q \in 1..Len(questions) :
                    RowCount(mine, q) = IF q <= Len(mine) THEN 1 ELSE 0
    /\ \A a \in 1..Len(attempts) : \A items \in ValidItems :
          LET rows == SubmittedResponses(responses, a, items)
              mine == RowsOf(rows, a)
          IN  /\ Len(mine) = Len(questions)
              /\ \A q \in 1..Len(questions) : RowCount(mine, q) = 1
              /\ \A i \in 1..Len(mine) :
                    LET given == {j \in 1..Len(items) :
                                    items[j].question_id = mine[i].question_id}
                    IN  IF given = {}
                        THEN mine[i].selected_option_ids = <<>>
                        ELSE \E j \in given :
                                mine[i].selected_option_ids = items[j].selected_option_ids
              /\ \A b \in 1..Len(attempts) : b # a => RowsOf(rows, b) = RowsOf(responses, b)

\* after a submission that answered one question and left another unanswered
C6_Witness ==
    /\ Submitted
    /\ LET mine == RowsOf(responses, resp.attempt_id)
       IN  /\ Len(mine) = MaxQuestions
           /\ \E i \in 1..Len(mine) : mine[i].selected_option_ids = <<>>
           /\ \E i \in 1..Len(mine) : Len(mine[i].selected_option_ids) = MaxSel

Started(exam_session) == ~exam_session.completed_at

\* C7: an attempt is Started (completed_at and total_score unset, no
\* responses) or Completed (completed_at and total_score set); it becomes
\* Completed only by a submission answered 303, a 303 leaves it Completed,
\* and once Completed it never reverts to Started.
C7_AttemptLifecycle ==
    /\ [](\A a \in 1..Len(attempts) :
            IF Started(attempts[a])
            THEN attempts[a].total_score = NULL /\ RowsOf(responses, a) = <<>>
            ELSE attempts[a].total_score # NULL)
    /\ [](Submitted => ~Started(attempts[resp.attempt_id]))
    /\ [][\A a \in 1..Len(attempts) :
            /\ ~Started(attempts[a]) => ~Started(attempts'[a])
            /\ (Started(attempts[a]) /\ ~Started(attempts'[a])) =>
                  (resp'.op = "submit" /\ resp'.status = 303 /\ resp'.attempt_id = a)]_vars

\* a completed attempt after its result was viewed
C7_Witness ==
    /\ resp.op = "view"
    /\ resp.status = 200
    /\ ~Started(attempts[resp.attempt_id])
    /\ RowsOf(responses, resp.attempt_id) # <<>>

BothCommitted == \A w \in Workers : workers[w].pc = "done"

\* C8: once two interleaved submissions for an attempt have both committed,
\* the attempt's responses and summary are exactly what the later-committing
\* submission alone would have stored, with one response per question.
C8_LastCommitWins ==
    (BothCommitted /\ resp.op = "submit" /\ resp.status = 303) =>
        LET a == resp.attempt_id
            alone == Submission(attempts[a], questions, resp.items, resp.raw)
        IN  /\ RowsOf(responses, a) = NewResponses(a, questions, resp.items)
            /\ attempts[a].completed_at
            /\ Summary(attempts[a]) =
                  <<(<<alone.total_score>>), alone.max_score, alone.passed>>

HasInvalidSelection(items) ==
    \E i \in 1..Len(items) :
        \/ items[i].selected_option_ids = <<>>
        \/ Cardinality(Range(items[i].selected_option_ids)) # Len(items[i].selected_option_ids)

Malformed(body) ==
    \/ body.answers.kind = "string"
    \/ body.extra
    \/ HasInvalidSelection(body.answers.items)

\* C9: a payload that fails validation against an existing attempt (answers
\* no array, an empty or duplicated selection, an unrecognised top-level
\* field) is answered 422 and changes no stored attempt or response.
C9_RejectedSubmissionChangesNothing ==
    /\ [](\A a \in 1..Len(attempts) : \A body \in Bodies :
            Malformed(body) => SubmitStatus(IntId(a), body) = 422)
    /\ [][(resp'.op = "submit" /\ resp'.status = 422) =>
            (attempts' = attempts /\ responses' = responses)]_vars

\* C10: a submission whose attempt id matches no stored attempt is answered
\* 404, creates no attempt and no response and leaves every stored attempt
\* and response unchanged.
C10_UnknownAttemptChangesNothing ==
    /\ [](\A v \in AttemptIdInts \ (1..Len(attempts)) : \A body \in Bodies :
            SubmitStatus(IntId(v), body) = 404)
    /\ []((resp.op = "submit" /\ resp.status = 404) =>
            resp.attempt_id \notin 1..Len(attempts))
    /\ [][(resp'.op = "submit" /\ resp'.status = 404) =>
            (attempts' = attempts /\ responses' = responses)]_vars

\* a 404 answered while an attempt and its responses are stored
C10_Witness ==
    /\ resp.op = "submit"
    /\ resp.status = 404
    /\ Len(attempts) > 0
    /\ responses # <<>>

DuplicateQuestion(items) ==
    \E i, j \in 1..Len(items) : i < j /\ items[i].question_id = items[j].question_id

\* two answer fields that name the same question: answer_<id> and q_<id>, or
\* a key with and without the [] suffix
DuplicateFormQuestion(form) ==
    \E i, j \in 1..Len(form) :
        /\ i < j
        /\ IsAnswerField(form[i])
        /\ IsAnswerField(form[j])
        /\ form[i].key.fragment = form[j].key.fragment

\* C11: a submission with two answers for the same question id, sent as a
\* JSON answers list or as two form fields naming the same question, is
\* rejected with a validation error (422) and nothing is scored or stored.
C11_DuplicateAnswersRejected ==
    /\ [](\A a \in 1..Len(attempts) :
            /\ \A body \in Bodies :
                  (body.answers.kind = "list" /\ DuplicateQuestion(body.answers.items)) =>
                      SubmitStatus(IntId(a), body) = 422
            /\ \A form \in Forms :
                  DuplicateFormQuestion(form) =>
                      FormStatus(IntId(a), form) = 422)
    /\ [][(resp'.op = "submit" /\ resp'.status \in {422, 500}) =>
            (attempts' = attempts /\ responses' = responses)]_vars

\* A body that is well formed apart from the arity of its selections: a list
\* of answers to distinct questions, each a non-empty selection of distinct ids.
WellFormed(body) ==
    /\ ~body.extra
    /\ body.answers.kind = "list"
    /\ ~DuplicateQuestion(body.answers.items)
    /\ \A i \in 1..Len(body.answers.items) :
          LET ids == body.answers.items[i].selected_option_ids
          IN  /\ ids # <<>>
              /\ JsonNull \notin Range(ids)
              /\ Cardinality(Range(ids)) = Len(ids)

SingleAritySatisfied(items, qs) ==
    \A i \in 1..Len(items) :
        (items[i].question_id \in 1..Len(qs) /\ qs[items[i].question_id].type = "single")
            => Len(items[i].selected_option_ids) = 1

\* C12: an answer to a stored single-type question with other than exactly one
\* option id makes the validator reject the submission; an answer to a
\* question id outside the question-type map is not checked for arity; and a
\* successful submission never stores more than one selected id for a question
\* that is single-type at that moment.
C12_SingleArityEnforced ==
    /\ [](\A a \in 1..Len(attempts) : \A body \in Bodies :
            /\ (body.answers.kind = "list"
                    /\ ~SingleAritySatisfied(body.answers.items, questions))
                  => SubmitStatus(IntId(a), body) \in {422, 500}
            /\ (WellFormed(body) /\ SingleAritySatisfied(body.answers.items, questions))
                  => SubmitStatus(IntId(a), body) = 303)
    /\ [][(resp'.op = "submit" /\ resp'.status = 303) =>
            \A i \in 1..Len(responses') :
                (/\ responses'[i].exam_session_id = resp'.attempt_id
                 /\ questions[responses'[i].question_id].type = "single")
                    => Len(responses'[i].selected_option_ids) <= 1]_vars

\* A submission went through that gave two option ids for a question id
\* outside the store, beside a stored single-type question with one id stored.
C12_Witness ==
    /\ resp.op = "submit"
    /\ resp.status = 303
    /\ Len(questions) < MaxQuestions
    /\ \E body \in Bodies :
          /\ WellFormed(body)
          /\ \E i \in 1..Len(body.answers.items) :
                /\ body.answers.items[i].question_id > Len(questions)
                /\ Len(body.answers.items[i].selected_option_ids) = 2
          /\ SubmitStatus(IntId(resp.attempt_id), body) = 303
    /\ \E i \in 1..Len(responses) :
          /\ responses[i].exam_session_id = resp.attempt_id
          /\ questions[responses[i].question_id].type = "single"
          /\ Len(responses[i].selected_option_ids) = 1

ListBody(items) == [answers |-> [kind |-> "list", items |-> items], extra |-> FALSE]

\* An answer to a question id outside the store, with a selection that passes
\* the schema, for a question the items do not answer yet.
UnknownAnswer(e, items) ==
    /\ e.question_id \notin 1..Len(questions)
    /\ WellFormed(ListBody(Append(items, e)))

\* C13: adding an answer whose question id matches no stored question to a
\* valid submission leaves the submission valid and changes neither the
\* total_score, max_score and passed it stores nor the response rows it stores;
\* no stored row names a question id outside the store.
C13_UnknownQuestionEarnsNothing ==
    /\ [](\A a \in 1..Len(attempts) : \A items \in ValidItems : \A e \in AnswerEntries :
            UnknownAnswer(e, items) =>
                \A more \in {Append(items, e), <<e>> \o items} :
                    /\ model_validate(ListBody(more), QuestionTypeMap(questions)) = {}
                    /\ SubmittedResponses(responses, a, more)
                          = SubmittedResponses(responses, a, items)
                    /\ \A raw \in RawThresholds :
                          SubmittedAttempts(attempts, a, TotalScore(questions, more), raw)
                             = SubmittedAttempts(attempts, a, TotalScore(questions, items), raw))
    /\ [][(resp'.op = "submit" /\ resp'.status = 303) =>
            \A i \in 1..Len(responses') :
                responses'[i].question_id \in 1..Len(questions)]_vars

\* The state left by a successful submission that answered the stored
\* question correctly and a question id outside the store as well.
C13_Witness ==
    /\ Submitted
    /\ \E items \in ValidItems :
          /\ \E i \in 1..Len(items) : items[i].question_id \notin 1..Len(questions)
          /\ \E i \in 1..Len(items) : items[i].question_id \in 1..Len(questions)
          /\ TotalScore(questions, items) = 1
          /\ responses = SubmittedResponses(responses, resp.attempt_id, items)
          /\ \E raw \in RawThresholds :
                attempts = SubmittedAttempts(attempts, resp.attempt_id,
                                             TotalScore(questions, items), raw)

\* The result view answered for an existing attempt.
Viewed == resp.op = "view" /\ resp.status = 200

\* C14: with at least one stored question, a submission with an empty answers
\* list and no pass_threshold is accepted and stores total_score 0 and
\* passed = FALSE, and the result view of an attempt so submitted reports
\* score 0 and Fail.
C14_NoAnswersScoreZero ==
    /\ \A a \in 1..Len(attempts) :
          Len(questions) >= 1 =>
              /\ SubmitStatus(IntId(a), ListBody(<<>>)) = 303
              /\ Submission(attempts[a], questions, <<>>, ABSENT).total_score = 0
              /\ ~Submission(attempts[a], questions, <<>>, ABSENT).passed
    /\ (/\ Viewed
        /\ attempts[resp.attempt_id] = SubmittedAttempts(attempts, resp.attempt_id, 0, ABSENT)
        /\ responses = SubmittedResponses(responses, resp.attempt_id, <<>>))
          => (resp.result.score = 0 /\ ~resp.result.passed)

\* The answers give the correct selection for every stored question: one
\* correct option for a single-type question, exactly the correct set for a
\* multi-type question.
AllCorrect(items) ==
    /\ Len(questions) >= 1
    /\ \A qid \in 1..Len(questions) :
          LET selected == SelectedFor(items, qid)
          IN  IF questions[qid].type = "single"
              THEN Len(selected) = 1 /\ selected[1] \in CorrectIds(questions[qid])
              ELSE Range(selected) = CorrectIds(questions[qid])

\* The pass_threshold values that lie in [0,1], and no pass_threshold at all.
ThresholdsInRange ==
    {raw \in RawThresholds :
        \/ raw = ABSENT
        \/ /\ ~FloatRaises(raw)
           /\ ~FloatOf(raw).nan
           /\ FloatOf(raw).v \in 0..10}

\* C15: a submission with the correct selection for every stored question
\* stores total_score = max_score = the number of questions and passed = TRUE
\* for every threshold in [0,1], and the result view of the attempt then
\* reports the full score and Pass.
C15_AllCorrectFullScore ==
    /\ \A a \in 1..Len(attempts) : \A items \in ValidItems :
          AllCorrect(items) =>
              \A raw \in ThresholdsInRange :
                  LET s == Submission(attempts[a], questions, items, raw)
                  IN  /\ s.total_score = Len(questions)
                      /\ s.max_score = Len(questions)
                      /\ s.passed
    /\ (/\ Viewed
        /\ \E items \in ValidItems :
              /\ AllCorrect(items)
              /\ responses = SubmittedResponses(responses, resp.attempt_id, items)
              /\ \E raw \in ThresholdsInRange :
                    attempts = SubmittedAttempts(attempts, resp.attempt_id,
                                                 TotalScore(questions, items), raw))
          => (/\ resp.result.score = Len(questions)
              /\ resp.result.max_score = Len(questions)
              /\ resp.result.passed)

\* C16: a start adds exactly one attempt, in the Started state (no responses,
\* completed_at and total_score unset, passed = FALSE) with max_score the
\* number of questions stored at that moment, and leaves every earlier
\* attempt, every response and every question as it was.
C16_StartCreatesOneAttempt ==
    [][(resp'.op = "start" /\ resp' # resp) =>
          /\ Len(attempts') = Len(attempts) + 1
          /\ resp'.attempt_id = Len(attempts')
          /\ attempts'[Len(attempts')] =
                [completed_at |-> FALSE, total_score |-> NULL,
                 max_score |-> Len(questions), passed |-> FALSE]
          /\ \A a \in 1..Len(attempts) : attempts'[a] = attempts[a]
          /\ \A i \in 1..Len(responses') : responses'[i].exam_session_id # Len(attempts')
          /\ responses' = responses
          /\ questions' = questions]_vars

\* A third attempt was started over a store of two questions while an earlier
\* attempt, started over fewer questions, stands submitted with its responses.
C16_Witness ==
    /\ resp.op = "start"
    /\ resp.attempt_id = 3
    /\ Len(attempts) = 3
    /\ Len(questions) = 2
    /\ attempts[3].max_score = 2
    /\ attempts[1].completed_at
    /\ attempts[1].max_score = 1
    /\ ~attempts[2].completed_at
    /\ RowsOf(responses, 1) # <<>>

\* The stores that differ from qs in the is_correct flags of options only.
FlagVariants(qs) ==
    {[i \in 1..Len(qs) |->
        [qs[i] EXCEPT !.options =
            {[o EXCEPT !.is_correct = (o.id \in correct[i])] : o \in qs[i].options}]] :
     correct \in [1..Len(qs) -> SUBSET OptionIds]}

\* C17: the question data the exam-start and exam-list operations hand to the
\* client view does not depend on the is_correct flags: every store that
\* differs from the stored questions in those flags only yields the same data.
C17_ViewDataHidesCorrectness ==
    /\ resp.op = "start" =>
          \A qs \in FlagVariants(questions) :
              Serialized(qs, 1, Len(qs)) = resp.questions
    /\ resp.op = "list" =>
          \A qs \in FlagVariants(questions) :
              LET first == (resp.page - 1) * resp.per_page + 1
              IN  Serialized(qs, first, first + Len(resp.questions) - 1) = resp.questions

\* The body breaks a rule of the submission schema.
FailsValidation(body) ==
    \/ Malformed(body)
    \/ \E i \in 1..Len(body.answers.items) :
          JsonNull \in Range(body.answers.items[i].selected_option_ids)
    \/ DuplicateQuestion(body.answers.items)
    \/ ~SingleAritySatisfied(body.answers.items, questions)

OrderedStatus(aid, body) ==
    IF aid.kind # "int" THEN 400
    ELSE IF aid.v \notin 1..Len(attempts) THEN 404
    ELSE IF FailsValidation(body) THEN 422
    ELSE 303

\* C18: submit answers 400 for a missing or non-integer attempt id, otherwise
\* 404 for an attempt id with no stored attempt, otherwise 422 for a payload
\* that fails validation, and only otherwise stores the submission and answers
\* 303 with the result view of that attempt as its target.
C18_FailureOrder ==
    /\ [](\A aid \in AttemptIdInputs : \A body \in Bodies :
            SubmitStatus(aid, body) = OrderedStatus(aid, body))
    /\ [][resp'.op = "submit" =>
            IF resp'.status = 303
            THEN /\ resp'.attempt_id \in 1..Len(attempts)
                 /\ attempts'[resp'.attempt_id].completed_at
            ELSE attempts' = attempts /\ responses' = responses]_vars

\* C19: every submitted attempt has 0 <= total_score <= max_score, also when
\* the store was seeded between the start of the attempt and its submission.
C19_ScoreWithinMax ==
    \A a \in 1..Len(attempts) :
        attempts[a].completed_at =>
            /\ attempts[a].total_score # NULL
            /\ 0 <= attempts[a].total_score[1]
            /\ attempts[a].total_score[1] <= attempts[a].max_score

\* C20: the pass/fail outcome the result view reports for an attempt is the
\* passed flag stored by its latest successful submission, and Fail for an
\* attempt that was started and never submitted (whose stored flag is FALSE).
C20_ViewReportsStoredOutcome ==
    Viewed =>
        /\ resp.result.passed = attempts[resp.attempt_id].passed
        /\ ~attempts[resp.attempt_id].completed_at => ~resp.result.passed

\* C21: the result view marks a stored response correct, with score 1,
\* exactly when score_question gives 1 for the question and the stored
\* selection, and, the questions being as they were at the submission, the
\* score the view reports is the stored total_score.
C21_ViewAgreesWithSubmit ==
    Viewed =>
        /\ \A i \in 1..Len(resp.result.breakdown) :
              LET row == resp.result.breakdown[i]
                  scored == score_question(questions[row.question_id],
                                           row.selected_option_ids)
              IN  /\ row.correct <=> scored = 1
                  /\ row.score = scored
        /\ attempts[resp.attempt_id].completed_at =>
              /\ Len(resp.result.breakdown) = Len(questions)
              /\ <<resp.result.score>> = attempts[resp.attempt_id].total_score

\* The view of a submitted attempt whose stored selection for the multi-type
\* question is a strict, non-empty subset of its correct set: no credit for it.
C21_Witness ==
    /\ Viewed
    /\ attempts[resp.attempt_id].completed_at
    /\ questions[1].type = "multi"
    /\ \E i \in 1..Len(resp.result.breakdown) :
          LET row == resp.result.breakdown[i]
          IN  /\ row.question_id = 1
              /\ row.selected_option_ids # <<>>
              /\ Range(row.selected_option_ids) \subseteq CorrectIds(questions[1])
              /\ Range(row.selected_option_ids) # CorrectIds(questions[1])
              /\ ~row.correct
    /\ resp.result.score = 1
    /\ attempts[resp.attempt_id].total_score = <<1>>

\* The fragment consists of the decimal digits 0-9.
DecimalDigits(str) == str \in {"1", "2"}

\* A field the parser is to pass over: an answer_ or q_ key whose fragment is
\* not all digits, or a key with neither prefix.
Ignorable(field) ==
    \/ field.key.prefix \notin {"answer_", "q_"}
    \/ ~DecimalDigits(field.key.fragment)

\* form with field put in at position i
InsertAt(form, i, field) ==
    SubSeq(form, 1, i - 1) \o <<field>> \o SubSeq(form, i, Len(form))

\* form with the answer_ and q_ prefixes exchanged
SwapPrefixes(form) ==
    [i \in 1..Len(form) |->
        [form[i] EXCEPT !.key.prefix =
            CASE @ = "answer_" -> "q_"
              [] @ = "q_" -> "answer_"
              [] OTHER -> @]]

\* The outcome of a form submission: its status and, when it is accepted, the
\* answers that are scored and stored.
FormOutcome(aid, form) ==
    [status |-> FormStatus(aid, form),
     items |-> IF FormStatus(aid, form) = 303 THEN Items(FormBody(form)) ELSE <<>>]

\* C22: a form field whose key has the answer_ or q_ prefix and a fragment
\* that is not all digits, or a key with neither prefix, is passed over: the
\* submission has the outcome it has without the field; and a form has the
\* same outcome with answer_<id> written q_<id> and the other way round.
C22_IgnoredFormFields ==
    \A aid \in AttemptIdInputs : \A form \in Forms :
        /\ Len(form) < MaxFields =>
              \A field \in FormFields : \A i \in 1..(Len(form) + 1) :
                  (Ignorable(field) /\ InsertAt(form, i, field) \in Forms) =>
                      FormOutcome(aid, InsertAt(form, i, field)) = FormOutcome(aid, form)
        /\ ~parse_raises(form) =>
              FormOutcome(aid, SwapPrefixes(form)) = FormOutcome(aid, form)

====
